---- MODULE Spec2Model ----
(***************************************************************************)
(* gfalace: lacing of pangenome blocks (GFA files) into one combined       *)
(* graph.  The module models src/main.rs: the per-file loading loop, the   *)
(* id translation, the extraction of ranges from path names, the           *)
(* reconciliation of the ranges of each path key, the creation of paths    *)
(* and edges, and the writing of the output file.                          *)
(*                                                                         *)
(* Strings are sequences of one-character strings, so that splitting,      *)
(* parsing and formatting are computed and not assumed.  A Handle is a     *)
(* record [id, rev]; an Edge is a pair of handles.                         *)
(***************************************************************************)
EXTENDS Integers, Sequences, FiniteSets

\* ------------------------------------------------------------------ bounds
\* Greatest number of block files in an input list of the range family.
MaxRangeBlocks == 3
\* Greatest coordinate used in the path names of the range family.
MaxCoord == 2
\* Greatest number of block files in an input list of the graph family.
MaxGraphBlocks == 2
\* Greatest number of nodes of a block of the graph family.
MaxNodes == 2
\* Greatest number of block files in a list of the debug and the i/o family.
MaxSmallBlocks == 2
\* Greatest length of a path name of the name family.
MaxNameLen == 6

\* ------------------------------------------------------------- characters
Digits == <<"0", "1", "2", "3", "4", "5", "6", "7", "8", "9">>

IsDigit(c) == \E d \in 1..10 : Digits[d] = c

DigitValue(c) == (CHOOSE d \in 1..10 : Digits[d] = c) - 1

Letters == <<"a", "b", "c", "d", "e", "f", "g", "h", "i", "j", "k", "l", "m",
             "n", "o", "p", "q", "r", "s", "t", "u", "v", "w", "x", "y", "z">>

IsLetter(c) == \E d \in 1..26 : Letters[d] = c

\* The byte of a character (ASCII), for the characters the model uses.
Byte(c) ==
    CASE c = "#" -> 35
      [] c = "+" -> 43
      [] c = "-" -> 45
      [] IsDigit(c) -> 48 + DigitValue(c)
      [] c = ":" -> 58
      [] IsLetter(c) -> 96 + (CHOOSE d \in 1..26 : Letters[d] = c)

\* Lexicographic order on byte strings (Vec<u8> / String comparison).
RECURSIVE BytesLess(_, _)
BytesLess(a, b) ==
    IF Len(b) = 0 THEN FALSE
    ELSE IF Len(a) = 0 THEN TRUE
    ELSE IF Byte(a[1]) # Byte(b[1]) THEN Byte(a[1]) < Byte(b[1])
    ELSE BytesLess(Tail(a), Tail(b))

\* str::split(sep): the fields between the separators (one field, possibly
\* empty, when there is no separator).
RECURSIVE SplitFrom(_, _, _, _)
SplitFrom(s, sep, i, cur) ==
    IF i > Len(s) THEN <<cur>>
    ELSE IF s[i] = sep THEN <<cur>> \o SplitFrom(s, sep, i + 1, <<>>)
    ELSE SplitFrom(s, sep, i + 1, Append(cur, s[i]))

split(s, sep) == SplitFrom(s, sep, 1, <<>>)

None == [ok |-> FALSE]

RECURSIVE DigitsValue(_, _)
DigitsValue(s, acc) ==
    IF Len(s) = 0 THEN acc
    ELSE DigitsValue(Tail(s), 10 * acc + DigitValue(s[1]))

\* str::parse::<usize>(): an optional '+' followed by at least one digit and
\* nothing else.  (The numerals of the model have at most MaxNameLen digits,
\* far below usize::MAX, so the overflow error of parse is not modelled.)
parse(s) ==
    LET digits == IF Len(s) > 0 /\ s[1] = "+" THEN Tail(s) ELSE s
    IN  IF Len(digits) = 0 \/ \E i \in 1..Len(digits) : ~IsDigit(digits[i])
        THEN None
        ELSE [ok |-> TRUE, value |-> DigitsValue(digits, 0)]

\* format!("{}", n) of a usize: its decimal digits, no sign, no leading zero.
RECURSIVE FormatUsize(_)
FormatUsize(n) ==
    IF n < 10 THEN <<Digits[n + 1]>>
    ELSE FormatUsize(n \div 10) \o <<Digits[(n % 10) + 1]>>

\* A mutant of split_path_name: no check of the number of '-' fields.
split_path_name_loose(path_name) ==
    LET parts == split(path_name, "#")
    IN  IF Len(parts) # 3 THEN None
        ELSE LET chr_range == split(parts[3], ":")
             IN  IF Len(chr_range) # 2 THEN None
                 ELSE LET range == split(chr_range[2], "-")
                          start == parse(range[1])
                          end   == parse(range[Len(range)])
                      IN  IF ~start.ok \/ ~end.ok THEN None
                          ELSE [ok |-> TRUE,
                                key |-> parts[1] \o <<"#">> \o parts[2]
                                          \o <<"#">> \o chr_range[1],
                                start |-> start.value,
                                end |-> end.value]

\* split_path_name: "sample#hap#contig:start-end" to (key, start, end).
split_path_name(path_name) ==
    LET parts == split(path_name, "#")
    IN  IF Len(parts) # 3 THEN None
        ELSE LET chr_range == split(parts[3], ":")
             IN  IF Len(chr_range) # 2 THEN None
                 ELSE LET range == split(chr_range[2], "-")
                      IN  IF Len(range) # 2 THEN None
                          ELSE LET start == parse(range[1])
                                   end   == parse(range[2])
                               IN  IF ~start.ok \/ ~end.ok THEN None
                                   ELSE [ok |-> TRUE,
                                         key |-> parts[1] \o <<"#">> \o parts[2]
                                                   \o <<"#">> \o chr_range[1],
                                         start |-> start.value,
                                         end |-> end.value]

\* ---------------------------------------------------------------- handles
\* Handle::pack(id, is_reverse)
Pack(id, is_reverse) == [id |-> id, rev |-> is_reverse]

\* Handle::flip
Flip(h) == [id |-> h.id, rev |-> ~h.rev]

\* ------------------------------------------------------------ the graph
\* HashGraph::new(): nodes is the map from node id to sequence, edges the
\* edges in the order they were created, paths the paths in the order they
\* were created.
NewGraph == [nodes |-> [n \in {} |-> <<>>], edges |-> <<>>, paths |-> <<>>]

\* HashGraph::node_count
node_count(graph) == Cardinality(DOMAIN graph.nodes)

\* HashGraph::create_handle(sequence, id): an insertion into the node map.
create_handle(graph, sequence, id) ==
    [graph EXCEPT !.nodes = [n \in (DOMAIN graph.nodes) \cup {id} |->
                                IF n = id THEN sequence ELSE graph.nodes[n]]]

\* HashGraph::create_edge: the graph itself does not look for the edge.
create_edge(graph, edge) == [graph EXCEPT !.edges = Append(@, edge)]

\* HashGraph::has_edge(left, right): the edge, in either reading direction.
has_edge(graph, left, right) ==
    \E k \in 1..Len(graph.edges) :
        \/ graph.edges[k] = <<left, right>>
        \/ graph.edges[k] = <<Flip(right), Flip(left)>>

\* HashGraph::create_path(name): None when a path of that name exists.
PathNames(graph) == {graph.paths[k].name : k \in 1..Len(graph.paths)}

create_path(graph, name) ==
    IF name \in PathNames(graph) THEN None
    ELSE [ok |-> TRUE,
          graph |-> [graph EXCEPT !.paths = Append(@, [name |-> name, steps |-> <<>>])],
          path_id |-> Len(graph.paths) + 1]

\* HashGraph::path_append_step
path_append_step(graph, path_id, step) ==
    [graph EXCEPT !.paths[path_id].steps = Append(@, step)]

\* ------------------------------------------------------- the id translation
\* The offset of a block: the node count of the combined graph so far.
\* A mutant: the number of blocks folded so far.
id_translation_by_index(graph, gfa_id) == gfa_id

IdTranslation(graph, gfa_id) == node_count(graph)

Translate(id_translation, h) == Pack(id_translation + h.id, h.rev)

\* The nodes of a block, created under their translated ids.
RECURSIVE AddNodes(_, _, _, _)
AddNodes(graph, block, id_translation, j) ==
    IF j > Len(block.sequences) THEN graph
    ELSE AddNodes(create_handle(graph, block.sequences[j], id_translation + j),
                  block, id_translation, j + 1)

\* The edges of a block, created with translated endpoints.
RECURSIVE AddEdges(_, _, _, _)
AddEdges(graph, block, id_translation, j) ==
    IF j > Len(block.edges) THEN graph
    ELSE AddEdges(create_edge(graph, <<Translate(id_translation, block.edges[j][1]),
                                       Translate(id_translation, block.edges[j][2])>>),
                  block, id_translation, j + 1)

TranslateSteps(id_translation, steps) ==
    [k \in 1..Len(steps) |-> Translate(id_translation, steps[k])]

\* path_key_ranges.entry(key).or_default().push(range)
PushRange(ranges, key, range) ==
    [k \in (DOMAIN ranges) \cup {key} |->
        IF k = key
        THEN (IF key \in DOMAIN ranges THEN ranges[key] ELSE <<>>) \o <<range>>
        ELSE ranges[k]]

\* The paths of a block: each name that split_path_name accepts gives one
\* RangeInfo with the translated steps.
RECURSIVE CollectRanges(_, _, _, _, _)
CollectRanges(ranges, block, gfa_id, id_translation, j) ==
    IF j > Len(block.paths) THEN ranges
    ELSE LET parsed == split_path_name(block.paths[j].name)
             next == IF parsed.ok
                     THEN PushRange(ranges, parsed.key,
                                    [start |-> parsed.start,
                                     end |-> parsed.end,
                                     gfa_id |-> gfa_id,
                                     steps |-> TranslateSteps(id_translation,
                                                              block.paths[j].steps)])
                     ELSE ranges
         IN  CollectRanges(next, block, gfa_id, id_translation, j + 1)

\* One block folded into the combined graph and the range map (the body of
\* the loading loop once the file is parsed): one offset for the nodes, the
\* edge endpoints and the path steps of the block.
FoldBlock(graph, ranges, block, gfa_id) ==
    LET id_translation == IdTranslation(graph, gfa_id)
    IN  [graph |-> AddEdges(AddNodes(graph, block, id_translation, 1),
                            block, id_translation, 1),
         ranges |-> CollectRanges(ranges, block, gfa_id, id_translation, 1),
         id_translation |-> id_translation]

\* ------------------------------------------------------- the reconciliation
is_contiguous(r1, r2) == r1.end = r2.start

has_overlap(r1, r2) == r1.start < r2.end /\ r2.start < r1.end

\* A mutant of the sort key: the start alone.
KeyLessByStart(r1, r2) == r1.start < r2.start

\* The sort key (start, end) of ranges.sort_by_key.
KeyLess(r1, r2) ==
    r1.start < r2.start \/ (r1.start = r2.start /\ r1.end < r2.end)

\* sort_by_key is a stable sort: a range goes behind the ranges of equal key
\* that came before it.
RECURSIVE InsertRange(_, _)
InsertRange(sorted, r) ==
    IF Len(sorted) = 0 THEN <<r>>
    ELSE IF KeyLess(r, sorted[1]) THEN <<r>> \o sorted
    ELSE <<sorted[1]>> \o InsertRange(Tail(sorted), r)

\* A mutant of the sort: the ranges stay in insertion order.
unsorted(ranges) == ranges

RECURSIVE sort_by_key(_)
sort_by_key(ranges) ==
    IF Len(ranges) = 0 THEN <<>>
    ELSE InsertRange(sort_by_key(SubSeq(ranges, 1, Len(ranges) - 1)),
                     ranges[Len(ranges)])

HasOverlaps(ranges) ==
    \E i \in 1..(Len(ranges) - 1) : has_overlap(ranges[i], ranges[i + 1])

AllContiguous(ranges) ==
    \A i \in 1..(Len(ranges) - 1) : is_contiguous(ranges[i], ranges[i + 1])

\* The diagnostic pass of debug mode over the sorted ranges, at the pair
\* (ranges[i], ranges[i + 1]); current_end is the end of the merged range so
\* far.  The gap is ranges[i].start - current_end on usize: when
\* it is negative the subtraction overflows, which panics in a build with
\* overflow checks and wraps (to a number that is only printed) in one
\* without.  TRUE when the pass panics.
RECURSIVE DiagnosticPanics(_, _, _, _)
DiagnosticPanics(ranges, i, current_end, overflow_checks) ==
    IF i >= Len(ranges) THEN FALSE
    ELSE IF is_contiguous(ranges[i], ranges[i + 1])
         THEN DiagnosticPanics(ranges, i + 1, ranges[i + 1].end, overflow_checks)
         ELSE IF ranges[i + 1].start < current_end /\ overflow_checks
              THEN TRUE
              ELSE DiagnosticPanics(ranges, i + 1, ranges[i + 1].end,
                                    overflow_checks)

\* A mutant of the edge derivation: the edge is created without has_edge.
AddStepEdgeUnchecked(graph, prev, step) == create_edge(graph, <<prev, step>>)

\* The edge of a step pair: created unless has_edge finds it.
AddStepEdge(graph, prev, step) ==
    IF has_edge(graph, prev, step) THEN graph
    ELSE create_edge(graph, <<prev, step>>)

\* The steps appended to a path one by one, each joined to the step before it
\* (prev is a sequence of at most one step: the Option prev_step).
RECURSIVE AppendSteps(_, _, _, _, _)
AppendSteps(graph, path_id, steps, k, prev) ==
    IF k > Len(steps) THEN graph
    ELSE LET appended == path_append_step(graph, path_id, steps[k])
             joined == IF Len(prev) = 0 THEN appended
                       ELSE AddStepEdge(appended, prev[1], steps[k])
         IN  AppendSteps(joined, path_id, steps, k + 1, <<steps[k]>>)

\* The steps of ranges[from..to], one range after the other.
RECURSIVE ConcatSteps(_, _, _)
ConcatSteps(ranges, from, to) ==
    IF from > to THEN <<>>
    ELSE ranges[from].steps \o ConcatSteps(ranges, from + 1, to)

\* The branch of all-contiguous ranges: one path named by the key; prev_step
\* lives across the ranges, so the steps are walked as one sequence.
SinglePath(graph, path_key, ranges) ==
    LET created == create_path(graph, path_key)
    IN  IF ~created.ok THEN [graph |-> graph, panicked |-> TRUE]
        ELSE [graph |-> AppendSteps(created.graph, created.path_id,
                                    ConcatSteps(ranges, 1, Len(ranges)), 1, <<>>),
              panicked |-> FALSE]

\* The index of the last range of the group that starts at index idx (1-based):
\* the group grows while the next range starts where the one before it ends.
RECURSIVE GroupEnd(_, _)
GroupEnd(ranges, idx) ==
    IF idx < Len(ranges) /\ is_contiguous(ranges[idx], ranges[idx + 1])
    THEN GroupEnd(ranges, idx + 1)
    ELSE idx

\* format!("{}:{}-{}", path_key, start_range.start, end_range.end)
GroupName(path_key, start_range, end_range) ==
    path_key \o <<":">> \o FormatUsize(start_range.start)
             \o <<"-">> \o FormatUsize(end_range.end)

\* The other branch: one path per group of contiguous ranges, from the range
\* at index idx on.  create_path(..).unwrap() panics on a name that exists.
RECURSIVE SplitPaths(_, _, _, _)
SplitPaths(graph, path_key, ranges, idx) ==
    IF idx > Len(ranges) THEN [graph |-> graph, panicked |-> FALSE]
    ELSE LET last == GroupEnd(ranges, idx)
             created == create_path(graph,
                                    GroupName(path_key, ranges[idx], ranges[last]))
         IN  IF ~created.ok THEN [graph |-> graph, panicked |-> TRUE]
             ELSE SplitPaths(AppendSteps(created.graph, created.path_id,
                                         ConcatSteps(ranges, idx, last), 1, <<>>),
                             path_key, ranges, last + 1)

\* One iteration of the loop over path_key_ranges: sort, classify, report in
\* debug mode, create the paths and their edges.
ReconcileLocus(graph, path_key, unsorted_ranges, debug, overflow_checks) ==
    LET ranges == sort_by_key(unsorted_ranges)
        has_overlaps == HasOverlaps(ranges)
        all_contiguous == AllContiguous(ranges)
        warned == (has_overlaps \/ ~all_contiguous) /\ debug
    IN  IF warned /\ DiagnosticPanics(ranges, 1, ranges[1].end, overflow_checks)
        THEN [graph |-> graph, ranges |-> ranges, panicked |-> TRUE,
              warned |-> TRUE, overlap_warned |-> has_overlaps]
        ELSE LET built == IF all_contiguous /\ ~has_overlaps
                          THEN SinglePath(graph, path_key, ranges)
                          ELSE SplitPaths(graph, path_key, ranges, 1)
             IN  [graph |-> built.graph, ranges |-> ranges,
                  panicked |-> built.panicked,
                  warned |-> warned, overlap_warned |-> warned /\ has_overlaps]

\* ------------------------------------------------------------ the writer
Tab == "\t"

Orient(h) == IF h.rev THEN "-" ELSE "+"

\* The node ids in ascending order (nodes.sort_by_key(id)).
RECURSIVE SortedIds(_)
SortedIds(ids) ==
    IF ids = {} THEN <<>>
    ELSE LET least == CHOOSE n \in ids : \A o \in ids : n <= o
         IN  <<least>> \o SortedIds(ids \ {least})

EdgeKeyLess(e1, e2) ==
    e1[1].id < e2[1].id \/ (e1[1].id = e2[1].id /\ e1[2].id < e2[2].id)

\* edges.sort_by: a stable sort on (from id, to id); the orientations are no
\* part of the key.  The order in which the graph yields its edges is taken
\* to be the order of their creation.
RECURSIVE InsertEdge(_, _)
InsertEdge(sorted, e) ==
    IF Len(sorted) = 0 THEN <<e>>
    ELSE IF EdgeKeyLess(e, sorted[1]) THEN <<e>> \o sorted
    ELSE <<sorted[1]>> \o InsertEdge(Tail(sorted), e)

RECURSIVE SortedEdges(_)
SortedEdges(edges) ==
    IF Len(edges) = 0 THEN <<>>
    ELSE InsertEdge(SortedEdges(SubSeq(edges, 1, Len(edges) - 1)), edges[Len(edges)])

\* paths.sort_by_key(name): a stable sort on the bytes of the name.
RECURSIVE InsertPath(_, _)
InsertPath(sorted, p) ==
    IF Len(sorted) = 0 THEN <<p>>
    ELSE IF BytesLess(p.name, sorted[1].name) THEN <<p>> \o sorted
    ELSE <<sorted[1]>> \o InsertPath(Tail(sorted), p)

RECURSIVE SortedPaths(_)
SortedPaths(paths) ==
    IF Len(paths) = 0 THEN <<>>
    ELSE InsertPath(SortedPaths(SubSeq(paths, 1, Len(paths) - 1)), paths[Len(paths)])

SegmentLine(id, sequence) == <<"S", Tab>> \o FormatUsize(id) \o <<Tab>> \o sequence

LinkLine(e) ==
    <<"L", Tab>> \o FormatUsize(e[1].id) \o <<Tab, Orient(e[1]), Tab>>
                 \o FormatUsize(e[2].id) \o <<Tab, Orient(e[2]), Tab, "0", "M">>

\* path_elements.join(",")
RECURSIVE JoinSteps(_, _)
JoinSteps(steps, k) ==
    IF k > Len(steps) THEN <<>>
    ELSE (IF k > 1 THEN <<",">> ELSE <<>>)
         \o FormatUsize(steps[k].id) \o <<Orient(steps[k])>>
         \o JoinSteps(steps, k + 1)

PathLine(p) == <<"P", Tab>> \o p.name \o <<Tab>> \o JoinSteps(p.steps, 1) \o <<Tab, "*">>

HeaderLine == <<"H", Tab, "V", "N", ":", "Z", ":", "1", ".", "0">>

\* The lines write_graph_to_gfa writes when no write fails.
write_graph_to_gfa(graph) ==
    LET ids == SortedIds(DOMAIN graph.nodes)
        edges == SortedEdges(graph.edges)
        paths == SortedPaths(graph.paths)
    IN  <<HeaderLine>>
        \o [k \in 1..Len(ids) |-> SegmentLine(ids[k], graph.nodes[ids[k]])]
        \o [k \in 1..Len(edges) |-> LinkLine(edges[k])]
        \o [k \in 1..Len(paths) |-> PathLine(paths[k])]

\* The keys of the BTreeMap in its iteration order (ascending bytes).
RECURSIVE SortedKeys(_)
SortedKeys(keys) ==
    IF keys = {} THEN <<>>
    ELSE LET least == CHOOSE k \in keys : \A o \in keys : o = k \/ BytesLess(k, o)
         IN  <<least>> \o SortedKeys(keys \ {least})

\* ------------------------------------------------------------- the state
VARIABLES
    args,             \* gfa_list (the files named on the command line), debug
    env,              \* overflow_checks (the build), output_fault (the output path)
    pc,               \* "load", "reconcile", "write" or "exit"
    gfa_id,           \* the index of the next file to load (from 0)
    combined_graph,
    path_key_ranges,  \* the BTreeMap from path key to its ranges
    id_translations,
    keys_done,        \* how many keys of path_key_ranges are reconciled
    tmp_files,        \* the gfa ids whose "<path>.tmp" exists
    output,           \* the output file: state "absent", "partial", "complete"
    stderr,           \* the kinds of message written to stderr
    exit_status       \* -1 while the process runs

vars == <<args, env, pc, gfa_id, combined_graph, path_key_ranges,
          id_translations, keys_done, tmp_files, output, stderr, exit_status>>

\* ------------------------------------------------------------ the inputs
\* A file is [gz, fault, block]: gz when its name ends with ".gz"; fault is
\* "ok", "missing" (it cannot be opened), "corrupt" (it is no gzip stream) or
\* "badgfa" (the parser rejects its content); block is what the parser and
\* HashGraph::from_gfa make of it: the sequences of its nodes 1..m, its edges
\* and its paths.
File(gz, fault, block) == [gz |-> gz, fault |-> fault, block |-> block]

SeqsUpTo(S, n) == UNION {[1..k -> S] : k \in 1..n}

Key0 == <<"s", "#", "1", "#", "c">>

Key1 == <<"t", "#", "1", "#", "c">>

RangeName(key, start, end) ==
    key \o <<":">> \o FormatUsize(start) \o <<"-">> \o FormatUsize(end)

Fwd(id) == Pack(id, FALSE)

Rev(id) == Pack(id, TRUE)

\* The range family: blocks of one node and one path of Key0 over [start, end),
\* every start and end in 0..MaxCoord.
RangeBlock(start, end) ==
    [sequences |-> << <<"A">> >>,
     edges |-> <<>>,
     paths |-> <<[name |-> RangeName(Key0, start, end), steps |-> <<Fwd(1)>>]>>]

RangeFiles(max_coord) ==
    {File(FALSE, "ok", RangeBlock(s, e)) : s \in 0..max_coord, e \in 0..max_coord}

RangeInputs(max_blocks, max_coord) ==
    {[gfa_list |-> l, debug |-> FALSE, overflow_checks |-> TRUE, output_fault |-> "none"] :
        l \in SeqsUpTo(RangeFiles(max_coord), max_blocks)}

\* The debug family: the range family in debug mode, in both builds.
DebugInputs(max_blocks, max_coord) ==
    {[gfa_list |-> l, debug |-> TRUE, overflow_checks |-> oc, output_fault |-> "none"] :
        l \in SeqsUpTo(RangeFiles(max_coord), max_blocks), oc \in BOOLEAN}

\* The graph family: the block at position i has m nodes in 1..MaxNodes (with
\* sequences A, C, A, ...), no edge or one edge between its first and its last
\* node, and paths over [i - 1, i) that walk between those nodes.
NodeSequences(m) == [j \in 1..m |-> IF j % 2 = 1 THEN <<"A">> ELSE <<"C">>]

GraphEdges(m) == {<<>>, << <<Fwd(1), Fwd(m)>> >>, << <<Rev(m), Rev(1)>> >>}

GraphPaths(m, i) ==
    {<<[name |-> RangeName(Key0, i - 1, i), steps |-> <<Fwd(1), Fwd(m), Fwd(1)>>]>>,
     <<[name |-> RangeName(Key0, i - 1, i), steps |-> <<Rev(m), Rev(1)>>]>>,
     <<[name |-> RangeName(Key0, i - 1, i), steps |-> <<Fwd(1), Fwd(m)>>],
       [name |-> RangeName(Key1, i - 1, i), steps |-> <<Fwd(1), Fwd(m)>>]>>}

GraphFiles(i, max_nodes) ==
    UNION {{File(FALSE, "ok", [sequences |-> NodeSequences(m), edges |-> e, paths |-> p]) :
                e \in GraphEdges(m), p \in GraphPaths(m, i)} : m \in 1..max_nodes}

RECURSIVE GraphLists(_, _)
GraphLists(k, max_nodes) ==
    IF k = 0 THEN {<<>>}
    ELSE {Append(l, f) : l \in GraphLists(k - 1, max_nodes),
                         f \in GraphFiles(k, max_nodes)}

GraphInputs(max_blocks, max_nodes) ==
    {[gfa_list |-> l, debug |-> FALSE, overflow_checks |-> TRUE, output_fault |-> "none"] :
        l \in UNION {GraphLists(k, max_nodes) : k \in 1..max_blocks}}

\* The name family: one block of one node with a self edge and one path, whose
\* name is any string of at most MaxNameLen characters of NameAlphabet, or one
\* of three longer names.
NameAlphabet == {"#", ":", "-", "+", "1"}

LongNames ==
    {<<"f", "o", "o", "#", "b", "a", "r">>,
     <<"f", "o", "o", "#", "1", "#", "c", "h", "r", "1", ":", "a", "b", "c", "-", "1", "0", "0">>,
     <<"f", "o", "o", "#", "1", "#", "c", "h", "r", "1", ":", "+", "5", "0", "-", "1", "0", "0">>}

NameBlock(name) ==
    [sequences |-> << <<"A">> >>,
     edges |-> << <<Fwd(1), Fwd(1)>> >>,
     paths |-> <<[name |-> name, steps |-> <<Fwd(1)>>]>>]

NameInputs(max_len) ==
    {[gfa_list |-> <<File(FALSE, "ok", NameBlock(n))>>, debug |-> FALSE,
      overflow_checks |-> TRUE, output_fault |-> "none"] :
        n \in SeqsUpTo(NameAlphabet, max_len) \cup LongNames}

\* The i/o family: plain and gzip files that are fine or faulty, and an output
\* path that can be written, cannot be created, or fails while written.
IoFiles(i) ==
    {File(gz, fault, RangeBlock(i - 1, i)) :
        gz \in BOOLEAN, fault \in {"ok", "missing", "corrupt", "badgfa"}}

RECURSIVE IoLists(_)
IoLists(k) ==
    IF k = 0 THEN {<<>>}
    ELSE {Append(l, f) : l \in IoLists(k - 1), f \in IoFiles(k)}

IoInputs(max_blocks) ==
    {[gfa_list |-> l, debug |-> d, overflow_checks |-> TRUE, output_fault |-> of] :
        l \in UNION {IoLists(k) : k \in 1..max_blocks},
        d \in BOOLEAN,
        of \in {"none", "create", "write"}}

\* ---------------------------------------------------------------- Init
\* The state when main starts on one of the given inputs.
InitOn(inputs) ==
    /\ \E in \in inputs :
          /\ args = [gfa_list |-> in.gfa_list, debug |-> in.debug]
          /\ env = [overflow_checks |-> in.overflow_checks,
                    output_fault |-> in.output_fault]
    /\ pc = "load"
    /\ gfa_id = 0
    /\ combined_graph = NewGraph
    /\ path_key_ranges = [k \in {} |-> <<>>]
    /\ id_translations = <<>>
    /\ keys_done = 0
    /\ tmp_files = {}
    /\ output = [state |-> "absent", lines |-> <<>>]
    /\ stderr = {}
    /\ exit_status = -1

\* The runs in debug mode over coordinates 0..MaxCoord, and the i/o family.
Init == InitOn(DebugInputs(MaxSmallBlocks, MaxCoord)) \/ InitOn(IoInputs(MaxSmallBlocks))

\* The runs in debug mode over coordinates 0..1, and the i/o family: the other
\* specifications start on these and on one larger family each.
InitCore == InitOn(DebugInputs(MaxSmallBlocks, 1)) \/ InitOn(IoInputs(MaxSmallBlocks))

InitRanges == InitCore \/ InitOn(RangeInputs(MaxRangeBlocks, MaxCoord))

InitGraphs == InitCore \/ InitOn(GraphInputs(MaxGraphBlocks, MaxNodes))

InitNames == InitCore \/ InitOn(NameInputs(MaxNameLen))

\* --------------------------------------------------------------- actions
\* A panic (an unwrap of None or Err, an arithmetic overflow): the message
\* goes to stderr and the process ends with status 101.
PanicExit == 101

Panic ==
    /\ pc' = "exit"
    /\ exit_status' = PanicExit
    /\ stderr' = stderr \cup {"panic"}

\* Where the run goes after the last file.
AfterLoad(ranges) == IF DOMAIN ranges = {} THEN "write" ELSE "reconcile"

\* The file is parsed and its block folded into the combined graph.
Fold(file) ==
    LET folded == FoldBlock(combined_graph, path_key_ranges, file.block, gfa_id)
    IN  /\ combined_graph' = folded.graph
        /\ path_key_ranges' = folded.ranges
        /\ id_translations' = Append(id_translations, folded.id_translation)
        /\ gfa_id' = gfa_id + 1
        /\ pc' = IF gfa_id + 1 < Len(args.gfa_list) THEN "load"
                 ELSE AfterLoad(folded.ranges)
        /\ UNCHANGED <<stderr, exit_status>>

\* One iteration of the loop over args.gfa_list.
LoadBlock ==
    /\ pc = "load"
    /\ gfa_id < Len(args.gfa_list)
    /\ LET file == args.gfa_list[gfa_id + 1]
       IN  \/ /\ ~file.gz
              /\ file.fault = "ok"
              /\ Fold(file)
              /\ UNCHANGED tmp_files
           \/ /\ ~file.gz
              /\ file.fault # "ok"
              \* parser.parse_file(gfa_path).unwrap()
              /\ Panic
              /\ UNCHANGED <<gfa_id, combined_graph, path_key_ranges,
                             id_translations, tmp_files>>
           \/ /\ file.gz
              /\ file.fault \in {"missing", "corrupt"}
              \* File::open(..).unwrap(), GzDecoder read_to_end(..).unwrap()
              /\ Panic
              /\ UNCHANGED <<gfa_id, combined_graph, path_key_ranges,
                             id_translations, tmp_files>>
           \/ /\ file.gz
              /\ file.fault = "badgfa"
              \* the temporary file is written, parse_file(&temp_path).unwrap()
              /\ Panic
              \* remove_file(&temp_path) is not reached
              /\ tmp_files' = tmp_files \cup {gfa_id}
              /\ UNCHANGED <<gfa_id, combined_graph, path_key_ranges,
                             id_translations>>
           \/ /\ file.gz
              /\ file.fault = "ok"
              /\ Fold(file)
              \* the temporary file is written, parsed and removed
              /\ tmp_files' = tmp_files \ {gfa_id}
    /\ UNCHANGED <<args, env, keys_done, output>>

\* One iteration of the loop over path_key_ranges.
Reconcile ==
    /\ pc = "reconcile"
    /\ LET keys == SortedKeys(DOMAIN path_key_ranges)
           path_key == keys[keys_done + 1]
           r == ReconcileLocus(combined_graph, path_key, path_key_ranges[path_key],
                               args.debug, env.overflow_checks)
       IN  /\ combined_graph' = r.graph
           /\ path_key_ranges' = [path_key_ranges EXCEPT ![path_key] = r.ranges]
           /\ \/ /\ ~r.panicked
                 /\ keys_done' = keys_done + 1
                 /\ pc' = IF keys_done + 1 < Len(keys) THEN "reconcile" ELSE "write"
                 /\ stderr' = stderr \cup (IF r.overlap_warned THEN {"overlap"} ELSE {})
                 /\ UNCHANGED exit_status
              \/ /\ r.panicked
                 /\ pc' = "exit"
                 /\ exit_status' = PanicExit
                 /\ stderr' = stderr \cup {"panic"}
                              \cup (IF r.overlap_warned THEN {"overlap"} ELSE {})
                 /\ UNCHANGED keys_done
    /\ UNCHANGED <<args, env, gfa_id, id_translations, tmp_files, output>>

\* write_graph_to_gfa and the end of main: an Err of the writer is printed, and
\* main returns as it does after Ok.
WriteOutput ==
    /\ pc = "write"
    /\ \/ /\ env.output_fault = "none"
          /\ output' = [state |-> "complete",
                        lines |-> write_graph_to_gfa(combined_graph)]
          /\ stderr' = stderr
          /\ exit_status' = 0
       \/ /\ env.output_fault = "create"
          \* File::create(output_path)? returns the error
          /\ output' = output
          /\ stderr' = stderr \cup {"write_error"}
          /\ exit_status' = 0
       \/ /\ env.output_fault = "write"
          \* a writeln!(..)? returns the error: some lines are in the file
          /\ output' = [state |-> "partial", lines |-> <<>>]
          /\ stderr' = stderr \cup {"write_error"}
          /\ exit_status' = 0
    /\ pc' = "exit"
    /\ UNCHANGED <<args, env, gfa_id, combined_graph, path_key_ranges,
                   id_translations, keys_done, tmp_files>>

Next == LoadBlock \/ Reconcile \/ WriteOutput

Spec == Init /\ [][Next]_vars

SpecRanges == InitRanges /\ [][Next]_vars

SpecGraphs == InitGraphs /\ [][Next]_vars

SpecNames == InitNames /\ [][Next]_vars

\* --------------------------------------------- the run as a function
\* main on files without fault, as a function of the command line: the loop
\* over the files, the loop over the keys, the writer.
RECURSIVE LoadAll(_, _, _, _)
LoadAll(graph, ranges, gfa_list, id) ==
    IF id >= Len(gfa_list) THEN [graph |-> graph, ranges |-> ranges]
    ELSE LET folded == FoldBlock(graph, ranges, gfa_list[id + 1].block, id)
         IN  LoadAll(folded.graph, folded.ranges, gfa_list, id + 1)

RECURSIVE ReconcileAll(_, _, _, _, _, _)
ReconcileAll(graph, ranges, keys, k, debug, overflow_checks) ==
    IF k > Len(keys) THEN [graph |-> graph, panicked |-> FALSE]
    ELSE LET r == ReconcileLocus(graph, keys[k], ranges[keys[k]], debug,
                                 overflow_checks)
         IN  IF r.panicked THEN [graph |-> r.graph, panicked |-> TRUE]
             ELSE ReconcileAll(r.graph, ranges, keys, k + 1, debug, overflow_checks)

RunMain(gfa_list, debug, overflow_checks) ==
    LET loaded == LoadAll(NewGraph, [k \in {} |-> <<>>], gfa_list, 0)
        built == ReconcileAll(loaded.graph, loaded.ranges,
                              SortedKeys(DOMAIN loaded.ranges), 1, debug,
                              overflow_checks)
    IN  [exit_status |-> IF built.panicked THEN PanicExit ELSE 0,
         graph |-> built.graph,
         output |-> IF built.panicked THEN [state |-> "absent", lines |-> <<>>]
                    ELSE [state |-> "complete",
                          lines |-> write_graph_to_gfa(built.graph)]]

\* =================================================================== claims
\* What the claims speak of, stated without the operators of the reconciler.

\* No file and no output path of the run is faulty.
NoFault ==
    /\ env.output_fault = "none"
    /\ \A i \in 1..Len(args.gfa_list) : args.gfa_list[i].fault = "ok"

\* The run ended and wrote its output.
Completed == pc = "exit" /\ exit_status = 0 /\ output.state = "complete"

Perms(n) == {f \in [1..n -> 1..n] : \A a, b \in 1..n : a # b => f[a] # f[b]}

HasPrefix(s, prefix) ==
    Len(s) >= Len(prefix) /\ SubSeq(s, 1, Len(prefix)) = prefix

\* The number of nodes of the files before the i-th (from 1).
RECURSIVE NodesBefore(_, _)
NodesBefore(gfa_list, i) ==
    IF i <= 1 THEN 0
    ELSE NodesBefore(gfa_list, i - 1) + Len(gfa_list[i - 1].block.sequences)

\* The pairs <<file, path>> of the first n files, in the order of the files
\* and of the paths in them.
RECURSIVE PathRefs(_, _)
PathRefs(gfa_list, n) ==
    IF n = 0 THEN <<>>
    ELSE PathRefs(gfa_list, n - 1)
         \o [j \in 1..Len(gfa_list[n].block.paths) |-> <<n, j>>]

\* The range that the path <<i, j>> stands for, its steps shifted by the number
\* of nodes of the files before file i.
RangeOf(gfa_list, ref) ==
    LET path == gfa_list[ref[1]].block.paths[ref[2]]
        parsed == split_path_name(path.name)
        shift == NodesBefore(gfa_list, ref[1])
    IN  [start |-> parsed.start, end |-> parsed.end, gfa_id |-> ref[1] - 1,
         steps |-> [k \in 1..Len(path.steps) |->
                       [id |-> path.steps[k].id + shift, rev |-> path.steps[k].rev]]]

\* The ranges of a key among the first n files, in the order of the input.
InputRanges(gfa_list, n, key) ==
    LET refs == PathRefs(gfa_list, n)
        OfKey(ref) == LET parsed == split_path_name(gfa_list[ref[1]].block.paths[ref[2]].name)
                      IN  parsed.ok /\ parsed.key = key
        kept == SelectSeq(refs, OfKey)
    IN  [k \in 1..Len(kept) |-> RangeOf(gfa_list, kept[k])]

IsPermutationOf(a, b) ==
    /\ Len(a) = Len(b)
    /\ \E f \in Perms(Len(a)) : \A k \in 1..Len(a) : a[k] = b[f[k]]

SortedByStartEnd(rs) ==
    \A i \in 1..(Len(rs) - 1) :
        \/ rs[i].start < rs[i + 1].start
        \/ (rs[i].start = rs[i + 1].start /\ rs[i].end <= rs[i + 1].end)

Joined(r1, r2) == r1.end = r2.start

Overlapping(r1, r2) == r1.start < r2.end /\ r2.start < r1.end

\* Every adjacent pair is contiguous and none overlaps.
FullyContiguous(rs) ==
    \A i \in 1..(Len(rs) - 1) : Joined(rs[i], rs[i + 1]) /\ ~Overlapping(rs[i], rs[i + 1])

\* The steps of rs[a..b], range after range.
RECURSIVE StepsInOrder(_, _, _)
StepsInOrder(rs, a, b) ==
    IF a > b THEN <<>> ELSE StepsInOrder(rs, a, b - 1) \o rs[b].steps

\* The keys whose iteration of the reconciling loop is over.
ReconciledKeys ==
    {SortedKeys(DOMAIN path_key_ranges)[k] : k \in 1..keys_done}

\* The paths of the combined graph that belong to a key: named by the key, or
\* by the key and a coordinate suffix.
LocusPaths(key) ==
    {k \in 1..Len(combined_graph.paths) :
        \/ combined_graph.paths[k].name = key
        \/ HasPrefix(combined_graph.paths[k].name, key \o <<":">>)}

\* C1: once a key is reconciled, its ranges are the ranges of the input sorted
\* by (start, end), and if every adjacent pair of them is contiguous and none
\* overlaps (a single range included), the key has exactly one path, named by
\* the bare key, whose steps are the steps of the ranges in sorted order.
C1_FullReconstruction ==
    \A key \in ReconciledKeys :
        LET rs == path_key_ranges[key]
        IN  /\ SortedByStartEnd(rs)
            /\ IsPermutationOf(rs, InputRanges(args.gfa_list, gfa_id, key))
            /\ FullyContiguous(rs) =>
                  \E k \in 1..Len(combined_graph.paths) :
                      /\ LocusPaths(key) = {k}
                      /\ combined_graph.paths[k].name = key
                      /\ combined_graph.paths[k].steps = StepsInOrder(rs, 1, Len(rs))

\* C1 witness: a completed run in which three ranges of one key, given out of
\* order, were spliced into one path.
C1_Witness ==
    /\ Completed
    /\ \E key \in ReconciledKeys :
          LET rs == path_key_ranges[key]
          IN  /\ Len(rs) = 3
              /\ FullyContiguous(rs)
              /\ rs[1].gfa_id # 0
              /\ rs[1].start < rs[2].start /\ rs[2].start < rs[3].start
              /\ \E k \in LocusPaths(key) : Len(combined_graph.paths[k].steps) = 3

\* The ranges of a key in the whole input, sorted by (start, end).
SortedInput(key) ==
    sort_by_key(InputRanges(args.gfa_list, Len(args.gfa_list), key))

InputKeys ==
    {k \in DOMAIN path_key_ranges :
        Len(InputRanges(args.gfa_list, Len(args.gfa_list), k)) > 0}

\* The run is not in debug mode, no file and no output path is faulty, and
\* every range of the input has start < end.
PlainRun ==
    /\ NoFault
    /\ ~args.debug
    /\ \A key \in InputKeys :
          \A i \in 1..Len(SortedInput(key)) :
              SortedInput(key)[i].start < SortedInput(key)[i].end

\* A maximal run of sorted ranges joined by end = start.
IsRun(rs, a, b) ==
    /\ a <= b
    /\ \A i \in a..(b - 1) : Joined(rs[i], rs[i + 1])
    /\ a = 1 \/ ~Joined(rs[a - 1], rs[a])
    /\ b = Len(rs) \/ ~Joined(rs[b], rs[b + 1])

Runs(rs) == {ab \in (1..Len(rs)) \X (1..Len(rs)) : IsRun(rs, ab[1], ab[2])}

LeastStart(rs, a, b) ==
    CHOOSE v \in {rs[i].start : i \in a..b} : \A i \in a..b : v <= rs[i].start

GreatestEnd(rs, a, b) ==
    CHOOSE v \in {rs[i].end : i \in a..b} : \A i \in a..b : v >= rs[i].end

\* C2 (the claim as stated, on ranges with start < end): when a run without
\* fault and without debug mode has ended, every key
\* whose sorted ranges have an adjacent pair that is not contiguous has no path
\* of the bare key and exactly one path per maximal run of joined ranges, named
\* key:S-E with S the least start and E the greatest end of the run, holding
\* the steps of the run in sorted order.
C2_SplitPerRun ==
    (pc = "exit" /\ PlainRun) =>
        \A key \in InputKeys :
            LET rs == SortedInput(key)
            IN  ~FullyContiguous(rs) =>
                  /\ \A k \in LocusPaths(key) : combined_graph.paths[k].name # key
                  /\ Cardinality(LocusPaths(key)) = Cardinality(Runs(rs))
                  /\ \A ab \in Runs(rs) :
                        \E k \in LocusPaths(key) :
                            /\ combined_graph.paths[k].name =
                                  RangeName(key, LeastStart(rs, ab[1], ab[2]),
                                            GreatestEnd(rs, ab[1], ab[2]))
                            /\ combined_graph.paths[k].steps =
                                  StepsInOrder(rs, ab[1], ab[2])

\* C3 (the claim as stated, on ranges with start < end): a run without fault
\* and without debug mode ends with status 0, and the
\* steps of every range of the input are in exactly one path, which holds the
\* steps of consecutive sorted ranges in their order.
C3_EveryRangeInOnePath ==
    (pc = "exit" /\ PlainRun) =>
        /\ exit_status = 0
        /\ \A key \in InputKeys :
              LET rs == SortedInput(key)
              IN  \A i \in 1..Len(rs) :
                      Cardinality({k \in LocusPaths(key) :
                          \E a \in 1..i : \E b \in i..Len(rs) :
                              combined_graph.paths[k].steps = StepsInOrder(rs, a, b)}) = 1

\* The handle h of a file, shifted by the nodes of the files before it.
Shifted(gfa_list, i, h) == [id |-> h.id + NodesBefore(gfa_list, i), rev |-> h.rev]

\* C4: at every point of the run the offset used for the i-th file is the
\* number of nodes of the files before it; the nodes of the combined graph are
\* exactly the nodes of the files folded so far, each under its own id (its
\* local id plus the offset) with its own sequence, so that their number is
\* the sum of the node counts; and the edges and the path steps of each file
\* are in the combined graph and in the ranges shifted by the same offset.
C4_IdTranslation ==
    /\ Len(id_translations) = gfa_id
    /\ \A i \in 1..gfa_id : id_translations[i] = NodesBefore(args.gfa_list, i)
    /\ DOMAIN combined_graph.nodes = 1..NodesBefore(args.gfa_list, gfa_id + 1)
    /\ node_count(combined_graph) = NodesBefore(args.gfa_list, gfa_id + 1)
    /\ \A i \in 1..gfa_id :
          LET block == args.gfa_list[i].block
          IN  /\ \A j \in 1..Len(block.sequences) :
                    combined_graph.nodes[NodesBefore(args.gfa_list, i) + j]
                        = block.sequences[j]
              /\ \A j \in 1..Len(block.edges) :
                    \E k \in 1..Len(combined_graph.edges) :
                        combined_graph.edges[k] =
                            <<Shifted(args.gfa_list, i, block.edges[j][1]),
                              Shifted(args.gfa_list, i, block.edges[j][2])>>
    /\ \A key \in DOMAIN path_key_ranges :
          IsPermutationOf(path_key_ranges[key],
                          InputRanges(args.gfa_list, gfa_id, key))

\* C4 witness: a completed run on two files of two nodes, the second with an
\* edge that lies at ids 3 and 4 of the combined graph.
C4_Witness ==
    /\ Completed
    /\ id_translations = <<0, 2>>
    /\ node_count(combined_graph) = 4
    /\ Len(args.gfa_list[2].block.edges) = 1
    /\ \E k \in 1..Len(combined_graph.edges) :
          combined_graph.edges[k] = <<[id |-> 3, rev |-> FALSE], [id |-> 4, rev |-> FALSE]>>

\* The places <<path, position>> where the step pair of an edge occurs.
Occurrences(edge) ==
    {kp \in (1..Len(combined_graph.paths)) \X (1..4) :
        /\ kp[2] < Len(combined_graph.paths[kp[1]].steps)
        /\ combined_graph.paths[kp[1]].steps[kp[2]] = edge[1]
        /\ combined_graph.paths[kp[1]].steps[kp[2] + 1] = edge[2]}

HasOverlappingPair(rs) ==
    \E i \in 1..(Len(rs) - 1) : Overlapping(rs[i], rs[i + 1])

StepsOfPath(k) ==
    {combined_graph.paths[k].steps[i] : i \in 1..Len(combined_graph.paths[k].steps)}

\* C6 (the claim as stated, on inputs whose run without debug mode completes):
\* a run in debug mode on a key with an overlapping adjacent pair ends as the
\* run without debug mode does: with status 0, the same paths and edges and the
\* same output, the two ranges of the pair in different paths.
C6_DebugOverlapHarmless ==
    LET quiet == RunMain(args.gfa_list, FALSE, env.overflow_checks)
    IN  (/\ pc = "exit"
         /\ NoFault
         /\ args.debug
         /\ quiet.exit_status = 0
         /\ \E key \in InputKeys : HasOverlappingPair(SortedInput(key)))
        =>
        /\ exit_status = 0
        /\ output = quiet.output
        /\ combined_graph.paths = quiet.graph.paths
        /\ combined_graph.edges = quiet.graph.edges
        /\ \A key \in InputKeys :
              LET rs == SortedInput(key)
              IN  \A i \in 1..(Len(rs) - 1) :
                      Overlapping(rs[i], rs[i + 1]) =>
                          ~\E k \in LocusPaths(key) :
                              /\ rs[i].steps[1] \in StepsOfPath(k)
                              /\ rs[i + 1].steps[1] \in StepsOfPath(k)

\* A file that the run tried to load is faulty, or the run reached the writer
\* and the output path is faulty.
IoFailed ==
    \/ \E i \in 1..Len(args.gfa_list) :
          i <= gfa_id + 1 /\ args.gfa_list[i].fault # "ok"
    \/ env.output_fault # "none" /\ gfa_id = Len(args.gfa_list)
                                 /\ exit_status # PanicExit

\* C9 (the claim as stated): when the process has ended, an i/o failure has
\* given a message and a status other than 0, and the status is 0 only if the
\* output file was written completely.
C9_IoFailureIsFatal ==
    pc = "exit" =>
        /\ IoFailed => (exit_status # 0 /\ stderr # {})
        /\ exit_status = 0 => output.state = "complete"

\* C10 (the claim as stated): between the loading of two blocks and when the
\* process has ended, no temporary file exists.
C10_TempFileRemoved == tmp_files = {}

\* ------------------------------------------------------------------ C7
\* The grammar of a path name, written from the naming contract: exactly two
\* '#', and after the second a field with exactly one ':' that is followed by
\* two numerals around exactly one '-'.  A numeral is a non-empty string of
\* decimal digits, which may carry a leading '+' sign.
PositionsOf(s, c) == {i \in 1..Len(s) : s[i] = c}

LastOf(s, c) == CHOOSE i \in PositionsOf(s, c) : \A j \in PositionsOf(s, c) : j <= i

IsNumeral(s) ==
    \E sign \in {0, 1} :
        /\ Len(s) > sign
        /\ sign = 1 => s[1] = "+"
        /\ \A i \in (sign + 1)..Len(s) : s[i] \in {Digits[d] : d \in 1..10}

RECURSIVE NumeralValue(_)
NumeralValue(s) ==
    IF Len(s) = 0 \/ s[Len(s)] = "+" THEN 0
    ELSE 10 * NumeralValue(SubSeq(s, 1, Len(s) - 1)) + DigitValue(s[Len(s)])

Matches(name) ==
    /\ Cardinality(PositionsOf(name, "#")) = 2
    /\ LET field == SubSeq(name, LastOf(name, "#") + 1, Len(name))
       IN  /\ Cardinality(PositionsOf(field, ":")) = 1
           /\ LET coords == SubSeq(field, LastOf(field, ":") + 1, Len(field))
              IN  /\ Cardinality(PositionsOf(coords, "-")) = 1
                  /\ IsNumeral(SubSeq(coords, 1, LastOf(coords, "-") - 1))
                  /\ IsNumeral(SubSeq(coords, LastOf(coords, "-") + 1, Len(coords)))

\* Of a name that matches: the text before the ':' of the third field, and the
\* values of the two numerals.
KeyOfName(name) == SubSeq(name, 1, LastOf(name, ":") - 1)

StartOfName(name) ==
    NumeralValue(SubSeq(name, LastOf(name, ":") + 1, LastOf(name, "-") - 1))

EndOfName(name) ==
    NumeralValue(SubSeq(name, LastOf(name, "-") + 1, Len(name)))

\* The paths <<file, path>> of the loaded files whose name matches.
MatchingRefs ==
    UNION {{<<i, j>> : j \in {n \in 1..Len(args.gfa_list[i].block.paths) :
                                  Matches(args.gfa_list[i].block.paths[n].name)}} :
              i \in 1..gfa_id}

NameOfRef(ref) == args.gfa_list[ref[1]].block.paths[ref[2]].name

Permuted(f) == [k \in 1..Len(args.gfa_list) |-> args.gfa_list[f[k]]]

\* The file (from 1) that a node of the combined graph comes from.
BlockOfNode(id) ==
    CHOOSE i \in 1..Len(args.gfa_list) :
        /\ NodesBefore(args.gfa_list, i) < id
        /\ id <= NodesBefore(args.gfa_list, i + 1)

\* The id that a node of this run has in the run on Permuted(f).
Renumber(f, id) ==
    LET i == BlockOfNode(id)
        k == CHOOSE k \in 1..Len(args.gfa_list) : f[k] = i
    IN  id - NodesBefore(args.gfa_list, i) + NodesBefore(Permuted(f), k)

RenumberHandle(f, h) == [id |-> Renumber(f, h.id), rev |-> h.rev]

\* The combined graph of this run with every node id renumbered.
Renumbered(f) ==
    LET ids == DOMAIN combined_graph.nodes
        old(n) == CHOOSE id \in ids : Renumber(f, id) = n
    IN  [nodes |-> [n \in {Renumber(f, id) : id \in ids} |-> combined_graph.nodes[old(n)]],
         edges |-> [e \in 1..Len(combined_graph.edges) |->
                      <<RenumberHandle(f, combined_graph.edges[e][1]),
                        RenumberHandle(f, combined_graph.edges[e][2])>>],
         paths |-> [k \in 1..Len(combined_graph.paths) |->
                      [name |-> combined_graph.paths[k].name,
                       steps |-> [n \in 1..Len(combined_graph.paths[k].steps) |->
                                    RenumberHandle(f, combined_graph.paths[k].steps[n])]]]]

LinesOf(lines) == {lines[n] : n \in 1..Len(lines)}

\* No key has two ranges with the same start and the same end.
NoTies ==
    \A key \in DOMAIN path_key_ranges :
        \A a, b \in 1..Len(path_key_ranges[key]) :
            (a # b) => \/ path_key_ranges[key][a].start # path_key_ranges[key][b].start
                       \/ path_key_ranges[key][a].end # path_key_ranges[key][b].end

====
